---- MODULE Spec2Model ----
(***************************************************************************)
(* Model of src/app.py: the flight-search pipeline search_flights          *)
(* (flight lookup -> recommendation -> notification) and send_email.       *)
(*                                                                         *)
(* Python strings are sequences of text parts: an f-string is the sequence *)
(* of its literal pieces and its formatted values, "" is <<>>, and one     *)
(* string contains a text when the text is one of its parts.               *)
(* The emoji that open the user-facing messages are left out of the texts. *)
(* JSON values are records tagged with their kind (k), so that an absent   *)
(* key, a null and a list stay distinguishable.                            *)
(***************************************************************************)
EXTENDS Naturals, Sequences, FiniteSets

VARIABLES
    pc,              \* where the run is: Idle, Searching, Recommending, Notifying, Done, Raised
    request,         \* the five form fields of the run
    calls,           \* the collaborators invoked in the run, in order
    resp,            \* the flight API's response
    flights,         \* best_flights + other_flights
    df,              \* the flattened frame
    flight_summary,
    payload,         \* the messages posted to the language model
    mistral_resp,    \* the language model's response
    recommendation,
    email_args,      \* the arguments send_email was called with
    email_status,
    smtp,            \* what the SMTP transaction did: "none", "ok" or the step that raised
    ret,             \* the three strings search_flights returned, <<>> before it returns
    exc              \* the exception search_flights raised, "" when none

vars == <<pc, request, calls, resp, flights, df, flight_summary, payload,
          mistral_resp, recommendation, email_args, email_status, smtp, ret, exc>>

(* ------------------------------ bounds -------------------------------- *)

\* Itineraries in one flight-API response (best_flights and other_flights together).
MaxItin == 2

\* Legs in one flight-API response (over all its itineraries).
MaxLegs == 2

(* ------------------------- values of the model ------------------------ *)

EmptyStr == <<>>

Absent == "<absent>"

NaN == [k |-> "nan", v |-> 0]

Emails == {"ann@example.org", "bob@example.org"}

\* A leg object of the flight API: airline, duration, departure_airport.id,
\* arrival_airport.id; LegBare is a leg object without any of these keys.
LegAA == [airline |-> "AA", duration |-> "320", dep |-> "IAD", arr |-> "SFO"]

LegBare == [airline |-> Absent, duration |-> Absent, dep |-> Absent, arr |-> Absent]

Legs == {LegAA, LegBare}

SeqsUpTo(S, n) == UNION {[1..m -> S] : m \in 0..n}

\* The "flights" member of an itinerary: absent, null, or a list of legs.
FlightsMembers ==
    {[k |-> "absent", v |-> <<>>], [k |-> "null", v |-> <<>>]}
      \cup {[k |-> "list", v |-> s] : s \in SeqsUpTo(Legs, MaxLegs)}

\* The "price" member of an itinerary: absent or a number.
PriceMembers == {[k |-> "absent", v |-> 0], [k |-> "num", v |-> 100], [k |-> "num", v |-> 200]}

Itineraries == [flights : FlightsMembers, price : PriceMembers]

RECURSIVE LegCount(_)
LegCount(its) ==
    IF its = <<>> THEN 0 ELSE Len(Head(its).flights.v) + LegCount(Tail(its))

ItinSeqs == {s \in SeqsUpTo(Itineraries, MaxItin) : LegCount(s) <= MaxLegs}

NoJson == [k |-> "invalid", best_flights |-> [k |-> "absent", v |-> <<>>],
           other_flights |-> [k |-> "absent", v |-> <<>>]]

\* The "best_flights" / "other_flights" member of the response object: absent,
\* null, or a list of itineraries.
Member(kind, its) == [k |-> kind, v |-> IF kind = "list" THEN its ELSE <<>>]

\* The response objects whose two collections hold the itineraries of s: split
\* at a position i, a collection that is absent or null holding none of them.
ObjectsOf(s) ==
    {[k |-> "object",
      best_flights |-> Member(t[2], SubSeq(s, 1, t[1])),
      other_flights |-> Member(t[3], SubSeq(s, t[1] + 1, Len(s)))] :
        t \in {c \in (0..Len(s)) \X {"absent", "null", "list"} \X {"absent", "null", "list"} :
                 /\ c[2] # "list" => c[1] = 0
                 /\ c[3] # "list" => c[1] = Len(s)}}

\* What requests.get can produce without a usable body: an exception (timeout,
\* connection failure), an error response with a text body, or a 200 response
\* whose body is not JSON or is JSON but no object.
PlainOutcomes ==
    {[k |-> "raise", status_code |-> 0, text |-> "", json |-> NoJson],
     [k |-> "response", status_code |-> 429, text |-> "rate limited", json |-> NoJson],
     [k |-> "response", status_code |-> 500, text |-> "internal error", json |-> NoJson],
     [k |-> "response", status_code |-> 200, text |-> "<json>", json |-> NoJson],
     [k |-> "response", status_code |-> 200, text |-> "<json>",
      json |-> [NoJson EXCEPT !.k = "nonobject"]]}

\* What requests.get can produce with the itineraries s in its body: a 200
\* response with one of the objects of s (and, so that each outcome is drawn
\* once, the outcomes without a usable body when s is empty).
GetOutcomes(s) ==
    (IF s = <<>> THEN PlainOutcomes ELSE {})
      \cup {[k |-> "response", status_code |-> 200, text |-> "<json>", json |-> j] :
              j \in ObjectsOf(s)}

NoResp == [k |-> "none", status_code |-> 0, text |-> "", json |-> NoJson]

\* The body of a language-model response: result["choices"][0]["message"]["content"]
\* is there (has) or the body is not JSON / lacks that path.
NoContent == [has |-> FALSE, content |-> EmptyStr]

Contents == {<<"Take the AA flight.">>}

\* What requests.post can produce.
PostOutcomes ==
    {[k |-> "raise", status_code |-> 0, text |-> "", body |-> NoContent]}
      \cup {[k |-> "response", status_code |-> 500, text |-> "server error", body |-> NoContent],
            [k |-> "response", status_code |-> 429, text |-> "rate limited", body |-> NoContent],
            [k |-> "response", status_code |-> 200, text |-> "<json>", body |-> NoContent]}
      \cup {[k |-> "response", status_code |-> 200, text |-> "<json>",
             body |-> [has |-> TRUE, content |-> c]] : c \in Contents}

NoMistralResp == [k |-> "none", status_code |-> 0, text |-> "", body |-> NoContent]

\* The step of the SMTP transaction that raises, or "ok" when none does.
SmtpOutcomes == {"ok", "MIMEText", "connect", "starttls", "login", "sendmail"}

NoEmailArgs == [subject |-> EmptyStr, body |-> EmptyStr, to_email |-> ""]

NoDf == [rows |-> <<>>, columns |-> {}]

(* ----------------------------- formatting ----------------------------- *)

\* str() of a status code inside an f-string.
StatusText(c) ==
    CASE c = 200 -> "200" [] c = 429 -> "429" [] c = 500 -> "500" [] OTHER -> "0"

\* str() of the exception raised at a step of the SMTP transaction.
ExcText(step) ==
    CASE step = "MIMEText" -> "body is not text"
      [] step = "connect" -> "Connection refused"
      [] step = "starttls" -> "STARTTLS extension not supported by server."
      [] step = "login" -> "(535, b'Authentication failed')"
      [] step = "sendmail" -> "{'to': (550, b'Recipient refused')}"
      [] OTHER -> ""

\* Variant: the failure message without the response body.
SerpapiError_NoBody(r) == <<" SerpAPI error ", StatusText(r.status_code)>>

SerpapiError(r) == <<" SerpAPI error ", StatusText(r.status_code), ": ", r.text>>

NoFlightsFound == <<"No flights found. Try different dates or airports.">>

CouldNotParse == <<"Could not parse flight data.">>

MistralError(r) == <<" Mistral error ", StatusText(r.status_code), ": ", r.text>>

\* Variant: the confirmation without the recipient.
SummarySent_NoRecipient(to_email) == <<"Summary sent">>

SummarySent(to_email) == <<"Summary sent to ", to_email>>

EmailFailed(e) == <<"Email failed: ", e>>

Contains(str, part) == \E i \in 1..Len(str) : str[i] = part

(* --------------------------- flight lookup ---------------------------- *)

\* data.get(key, []): the member, or an empty list when the key is absent.
DataGet(member) == IF member.k = "absent" THEN [k |-> "list", v |-> <<>>] ELSE member

\* meta=["price"], errors="ignore": the itinerary's price, NaN when it has none.
PullField(obj) == IF obj.price.k = "absent" THEN NaN ELSE obj.price

\* record_path=["flights"]: the legs of one itinerary, each with the itinerary's
\* price; a null "flights" gives no records.
PullRecords(obj) ==
    [i \in 1..Len(obj.flights.v) |->
        [airline |-> obj.flights.v[i].airline,
         duration |-> obj.flights.v[i].duration,
         dep |-> obj.flights.v[i].dep,
         arr |-> obj.flights.v[i].arr,
         price |-> PullField(obj)]]

RECURSIVE ExtractRecords(_)
ExtractRecords(data) ==
    IF data = <<>> THEN <<>> ELSE PullRecords(Head(data)) \o ExtractRecords(Tail(data))

\* The columns of the frame: the keys some record has, and the meta column.
Columns(rows) ==
    {"price"}
      \cup {c \in {"airline"} : \E i \in 1..Len(rows) : rows[i].airline # Absent}
      \cup {c \in {"duration"} : \E i \in 1..Len(rows) : rows[i].duration # Absent}
      \cup {c \in {"departure_airport.id"} : \E i \in 1..Len(rows) : rows[i].dep # Absent}
      \cup {c \in {"arrival_airport.id"} : \E i \in 1..Len(rows) : rows[i].arr # Absent}

\* pd.json_normalize(flights, record_path=["flights"], meta=["price"],
\* errors="ignore"): an itinerary without the "flights" key raises KeyError
\* (errors="ignore" covers the meta keys only).
JsonNormalize(data) ==
    IF \E i \in 1..Len(data) : data[i].flights.k = "absent"
    THEN [exc |-> "KeyError", rows |-> <<>>, columns |-> {}]
    ELSE [exc |-> "", rows |-> ExtractRecords(data), columns |-> Columns(ExtractRecords(data))]

\* df.empty
DfEmpty(d) == Len(d.rows) = 0 \/ d.columns = {}

SummaryColumns == {"airline", "duration", "departure_airport.id", "arrival_airport.id", "price"}

CellText(x) == IF x = Absent THEN "NaN" ELSE x

PriceText(p) ==
    CASE p.k = "nan" -> "NaN" [] p.v = 100 -> "100" [] p.v = 200 -> "200" [] OTHER -> "0"

RowText(r) ==
    <<CellText(r.airline), CellText(r.duration), CellText(r.dep), CellText(r.arr),
      PriceText(r.price)>>

RECURSIVE RowsText(_)
RowsText(rows) == IF rows = <<>> THEN <<>> ELSE RowText(Head(rows)) \o RowsText(Tail(rows))

\* df.to_string(columns=[...], index=False): a header line and one line of five
\* cells per row; a requested column the frame does not have raises KeyError.
ToString(d) ==
    IF SummaryColumns \subseteq d.columns
    THEN [exc |-> "", text |-> <<"airline duration departure_airport.id arrival_airport.id price">>
                                 \o RowsText(d.rows)]
    ELSE [exc |-> "KeyError", text |-> EmptyStr]

NoRet == <<>>

Running == [pc |-> "Recommending", exc |-> "", ret |-> NoRet,
            flights |-> <<>>, df |-> NoDf, flight_summary |-> EmptyStr]

Raised(e) == [Running EXCEPT !.pc = "Raised", !.exc = e]

Returned(a, b, c) == [Running EXCEPT !.pc = "Done", !.ret = <<a, b, c>>]

\* Variant: an error status is raised (as by raise_for_status) instead of reported.
OnErrorStatus_Raise(r) == Raised("HTTPError")

\* if resp.status_code != 200: return the failure message and two empty strings.
OnErrorStatus(r) == Returned(SerpapiError(r), EmptyStr, EmptyStr)

\* Variant: without the "if not flights" test an empty list reaches json_normalize,
\* whose empty frame gives the "could not parse" return.
OnNoFlights_FallThrough == Returned(CouldNotParse, EmptyStr, EmptyStr)

\* if not flights: return the no-results message and two empty strings.
OnNoFlights == Returned(NoFlightsFound, EmptyStr, EmptyStr)

\* Lines 45-70 of search_flights on the outcome r of requests.get.
Lookup(r) ==
    IF r.k = "raise" THEN Raised("RequestException")
    ELSE IF r.status_code # 200 THEN OnErrorStatus(r)
    ELSE IF r.json.k = "invalid" THEN Raised("JSONDecodeError")
    ELSE IF r.json.k = "nonobject" THEN Raised("AttributeError")
    ELSE IF DataGet(r.json.best_flights).k = "null" \/ DataGet(r.json.other_flights).k = "null"
         THEN Raised("TypeError")
    ELSE LET fl == DataGet(r.json.best_flights).v \o DataGet(r.json.other_flights).v
             d == JsonNormalize(fl)
             s == ToString(d)
         IN IF fl = <<>> THEN OnNoFlights
            ELSE IF d.exc # "" THEN [Raised(d.exc) EXCEPT !.flights = fl]
            ELSE IF DfEmpty(d)
                 THEN [Returned(CouldNotParse, EmptyStr, EmptyStr) EXCEPT
                          !.flights = fl, !.df = [rows |-> d.rows, columns |-> d.columns]]
            ELSE IF s.exc # ""
                 THEN [Raised(s.exc) EXCEPT
                          !.flights = fl, !.df = [rows |-> d.rows, columns |-> d.columns]]
            ELSE [Running EXCEPT !.flights = fl,
                                 !.df = [rows |-> d.rows, columns |-> d.columns],
                                 !.flight_summary = s.text]

(* --------------------------- recommendation --------------------------- *)

SystemPrompt(summary) ==
    <<"You are a travel assistant. ",
      "Choose the best flight based on price, duration, and number of stops.\n\n">> \o summary

UserQuestion == <<"Which flight is the best option and why?">>

\* Variant: an error status is raised (as by raise_for_status) instead of
\* becoming the recommendation.
Recommendation_RaiseForStatus(r) ==
    IF r.k = "raise" THEN [exc |-> "RequestException", text |-> EmptyStr]
    ELSE IF r.status_code = 200
         THEN IF r.body.has THEN [exc |-> "", text |-> r.body.content]
              ELSE [exc |-> "KeyError", text |-> EmptyStr]
    ELSE [exc |-> "HTTPError", text |-> EmptyStr]

\* Lines 94-99 of search_flights on the outcome r of requests.post.
Recommendation(r) ==
    IF r.k = "raise" THEN [exc |-> "RequestException", text |-> EmptyStr]
    ELSE IF r.status_code = 200
         THEN IF r.body.has THEN [exc |-> "", text |-> r.body.content]
              ELSE [exc |-> "KeyError", text |-> EmptyStr]
    ELSE [exc |-> "", text |-> MistralError(r)]

(* ---------------------------- notification ---------------------------- *)

\* Variant: only the SMTP errors of the session are caught; a failure to build
\* the message or to connect propagates.
SendEmail_NarrowExcept(subject, body, to_email, outcome) ==
    IF outcome = "ok" THEN [exc |-> "", text |-> SummarySent(to_email)]
    ELSE IF outcome \in {"MIMEText", "connect"} THEN [exc |-> outcome, text |-> EmptyStr]
    ELSE [exc |-> "", text |-> EmailFailed(ExcText(outcome))]

\* send_email on the outcome of its SMTP transaction: "except Exception" around
\* the whole body catches the exception of any step and returns it as text, so
\* no exception (exc) ever leaves it.
SendEmail(subject, body, to_email, outcome) ==
    IF outcome = "ok" THEN [exc |-> "", text |-> SummarySent(to_email)]
    ELSE [exc |-> "", text |-> EmailFailed(ExcText(outcome))]

\* Variant: an error response of the language model ends the run without an email.
AfterRecommend_NoEmailOnError(r) ==
    IF Recommendation(r).exc # "" THEN "Raised"
    ELSE IF r.status_code = 200 THEN "Notifying" ELSE "Done"

\* Variant: an error response of the language model is retried.
AfterRecommend_Retry(r) ==
    IF Recommendation(r).exc # "" THEN "Raised"
    ELSE IF r.status_code = 200 THEN "Notifying" ELSE "Recommending"

\* Where search_flights goes after lines 94-99: on to send_email, unless the
\* call or the extraction of the content raised.
AfterRecommend(r) == IF Recommendation(r).exc # "" THEN "Raised" ELSE "Notifying"

Subject == <<"Your Flight Recommendation">>

(* ------------------------------ the run ------------------------------- *)

Requests ==
    [origin : {"IAD"}, destination : {"SFO"}, outbound_date : {"2025-01-10"},
     return_date : {"2025-01-17"}, user_email : Emails]

NoRequest ==
    [origin |-> "", destination |-> "", outbound_date |-> "", return_date |-> "",
     user_email |-> ""]

Fresh ==
    /\ calls = <<>>
    /\ resp = NoResp
    /\ flights = <<>>
    /\ df = NoDf
    /\ flight_summary = EmptyStr
    /\ payload = <<>>
    /\ mistral_resp = NoMistralResp
    /\ recommendation = EmptyStr
    /\ email_args = NoEmailArgs
    /\ email_status = EmptyStr
    /\ smtp = "none"
    /\ ret = NoRet
    /\ exc = ""

Init ==
    /\ pc = "Idle"
    /\ request = NoRequest
    /\ Fresh

\* search_btn.click: a run of search_flights starts on the form's fields; every
\* run has its own locals.
Click ==
    /\ pc \in {"Idle", "Done", "Raised"}
    /\ \E q \in Requests : request' = q
    /\ pc' = "Searching"
    /\ calls' = <<>>
    /\ resp' = NoResp
    /\ flights' = <<>>
    /\ df' = NoDf
    /\ flight_summary' = EmptyStr
    /\ payload' = <<>>
    /\ mistral_resp' = NoMistralResp
    /\ recommendation' = EmptyStr
    /\ email_args' = NoEmailArgs
    /\ email_status' = EmptyStr
    /\ smtp' = "none"
    /\ ret' = NoRet
    /\ exc' = ""

\* Step 1-3: the flight lookup, its flattening and its summary.
FlightLookup ==
    /\ pc = "Searching"
    /\ \E s \in ItinSeqs : \E r \in GetOutcomes(s) :
         /\ calls' = Append(calls, "get")
         /\ resp' = IF r.k = "raise" THEN resp ELSE r
         /\ pc' = Lookup(r).pc
         /\ exc' = Lookup(r).exc
         /\ ret' = Lookup(r).ret
         /\ flights' = Lookup(r).flights
         /\ df' = Lookup(r).df
         /\ flight_summary' = Lookup(r).flight_summary
    /\ UNCHANGED <<request, payload, mistral_resp, recommendation, email_args, email_status,
                   smtp>>

\* Step 4: the language-model call.
Recommend ==
    /\ pc = "Recommending"
    /\ payload' = <<SystemPrompt(flight_summary), UserQuestion>>
    /\ \E r \in PostOutcomes :
         /\ calls' = Append(calls, "post")
         /\ mistral_resp' = IF r.k = "raise" THEN mistral_resp ELSE r
         /\ exc' = Recommendation(r).exc
         /\ recommendation' = Recommendation(r).text
         /\ pc' = AfterRecommend(r)
    /\ UNCHANGED <<request, resp, flights, df, flight_summary, email_args, email_status,
                   smtp, ret>>

\* Step 5: the email, and the return of the three outputs.
Notify ==
    /\ pc = "Notifying"
    /\ calls' = Append(calls, "send_email")
    /\ email_args' = [subject |-> Subject, body |-> recommendation,
                      to_email |-> request.user_email]
    /\ \E o \in SmtpOutcomes :
         LET sent == SendEmail(Subject, recommendation, request.user_email, o)
         IN /\ smtp' = o
            /\ exc' = sent.exc
            /\ email_status' = sent.text
            /\ pc' = IF sent.exc = "" THEN "Done" ELSE "Raised"
            /\ ret' = IF sent.exc = "" THEN <<flight_summary, recommendation, sent.text>>
                      ELSE NoRet
    /\ UNCHANGED <<request, resp, flights, df, flight_summary, payload, mistral_resp,
                   recommendation>>

Next == Click \/ FlightLookup \/ Recommend \/ Notify

Spec == Init /\ [][Next]_vars

(* ------------------------------ claims -------------------------------- *)

CallCount(name) == Cardinality({i \in 1..Len(calls) : calls[i] = name})

\* The flight API answered 200 with a JSON object.
GotObject == resp.k = "response" /\ resp.status_code = 200 /\ resp.json.k = "object"

EmptyOrAbsent(m) == m.k = "absent" \/ (m.k = "list" /\ m.v = <<>>)

\* The itineraries of the response, best_flights first, when neither is null.
Itins == resp.json.best_flights.v \o resp.json.other_flights.v

NoNullCollection == resp.json.best_flights.k # "null" /\ resp.json.other_flights.k # "null"

Finished == pc \in {"Done", "Raised"}

\* C1: when the flight API answers 200 and "best_flights" and "other_flights" are
\* both empty or absent, the run returns the no-results message with an empty
\* recommendation and an empty email status, and neither the language model nor
\* send_email has been called.
C1_EmptyResultStopsPipeline ==
    (GotObject /\ EmptyOrAbsent(resp.json.best_flights) /\ EmptyOrAbsent(resp.json.other_flights))
      => /\ pc = "Done"
         /\ ret = <<(<<"No flights found. Try different dates or airports.">>), EmptyStr, EmptyStr>>
         /\ CallCount("post") = 0
         /\ CallCount("send_email") = 0

C1_Witness ==
    /\ pc = "Done"
    /\ GotObject
    /\ resp.json.best_flights.k = "absent"
    /\ resp.json.other_flights = [k |-> "list", v |-> <<>>]
    /\ calls = <<"get">>

\* C2: when the flight API answers with a status other than 200, the first output
\* contains the status code and the raw response body, the other two outputs are
\* empty, and neither the language model nor send_email has been called.
C2_ErrorStatusReported ==
    (resp.k = "response" /\ resp.status_code # 200)
      => /\ pc = "Done"
         /\ Len(ret) = 3
         /\ resp.status_code = 429 => Contains(ret[1], "429")
         /\ resp.status_code = 500 => Contains(ret[1], "500")
         /\ Contains(ret[1], resp.text)
         /\ ret[2] = EmptyStr
         /\ ret[3] = EmptyStr
         /\ CallCount("post") = 0
         /\ CallCount("send_email") = 0

C2_Witness ==
    /\ pc = "Done"
    /\ resp.status_code = 429
    /\ resp.text = "rate limited"
    /\ ret[1] = <<" SerpAPI error ", "429", ": ", "rate limited">>

\* C3: when the lookup produced at least one row and the language model answers
\* with a status other than 200, the recommendation is a failure string holding
\* the status code and the response body, send_email is still called, and the
\* body it is given is the very string returned as the recommendation.
C3_ModelErrorIsEmailed ==
    (mistral_resp.k = "response" /\ mistral_resp.status_code # 200)
      => /\ Len(df.rows) >= 1
         /\ pc \in {"Notifying", "Done"}
         /\ mistral_resp.status_code = 429 => Contains(recommendation, "429")
         /\ mistral_resp.status_code = 500 => Contains(recommendation, "500")
         /\ Contains(recommendation, mistral_resp.text)
         /\ pc = "Done" => /\ ret[2] = recommendation
                           /\ CallCount("send_email") = 1
                           /\ email_args.body = ret[2]

C3_Witness ==
    /\ pc = "Done"
    /\ mistral_resp.status_code = 500
    /\ email_args.body = <<" Mistral error ", "500", ": ", "server error">>
    /\ ret[2] = email_args.body

\* C4: send_email never lets an exception out: whichever step of the SMTP
\* transaction fails (message construction, connect, STARTTLS, login, sendmail),
\* it returns a failure string holding the exception's text, and search_flights
\* then returns the flight summary and the recommendation as they were, with that
\* string as the email status.
C4_SendEmailNeverRaises ==
    smtp # "none"
      => /\ pc = "Done"
         /\ exc = ""
         /\ Len(ret) = 3
         /\ ret[1] = flight_summary /\ Len(flight_summary) > 0
         /\ ret[2] = recommendation
         /\ mistral_resp.status_code = 200 => ret[2] = mistral_resp.body.content
         /\ smtp # "ok" => /\ ret[3][1] = "Email failed: "
                           /\ ExcText(smtp) # ""
                           /\ Contains(ret[3], ExcText(smtp))

C4_Witness ==
    /\ pc = "Done"
    /\ smtp = "login"
    /\ mistral_resp.status_code = 200
    /\ Len(ret[1]) > 0
    /\ ret[2] = <<"Take the AA flight.">>
    /\ ret[3] = <<"Email failed: ", "(535, b'Authentication failed')">>

\* Row n of the frame is leg j of itinerary i: the leg's fields, and the
\* itinerary's price when it has one.
RowIsLeg(n, i, j) ==
    /\ n <= Len(df.rows)
    /\ df.rows[n].airline = Itins[i].flights.v[j].airline
    /\ df.rows[n].duration = Itins[i].flights.v[j].duration
    /\ df.rows[n].dep = Itins[i].flights.v[j].dep
    /\ df.rows[n].arr = Itins[i].flights.v[j].arr
    /\ Itins[i].price.k = "num" => df.rows[n].price = Itins[i].price

OneRowPerLegInOrder ==
    /\ Len(df.rows) = LegCount(Itins)
    /\ \A i \in 1..Len(Itins) : \A j \in 1..Len(Itins[i].flights.v) :
         RowIsLeg(LegCount(SubSeq(Itins, 1, i - 1)) + j, i, j)

\* C5: for every flight API response with at least one itinerary that has at
\* least one leg, flattening best_flights followed by other_flights gives exactly
\* one row per leg, each with the price of its itinerary, in input order.
C5_OneRowPerLeg ==
    (GotObject /\ NoNullCollection /\ \E i \in 1..Len(Itins) : Len(Itins[i].flights.v) >= 1)
      => OneRowPerLegInOrder

\* The same for the responses in which every itinerary has a "flights" member.
FlattenWhenEveryItineraryHasFlights ==
    (/\ GotObject /\ NoNullCollection
     /\ \E i \in 1..Len(Itins) : Len(Itins[i].flights.v) >= 1
     /\ \A i \in 1..Len(Itins) : Itins[i].flights.k # "absent")
      => OneRowPerLegInOrder

FlattenWitness ==
    /\ pc = "Recommending"
    /\ Len(Itins) = 2
    /\ Len(df.rows) = 2
    /\ df.rows[1].price # df.rows[2].price
    /\ df.rows[1].airline # df.rows[2].airline

\* C6: every failure is a descriptive string in its output field and is never
\* raised: whatever the three remote services do, search_flights returns three
\* strings and does not raise.
C6_NeverRaises == pc # "Raised"

\* C6 as amended: the failures the code reports (a status other than 200 from
\* either HTTP API, no itineraries or no flattened rows, an exception of the SMTP
\* transaction) are strings in their output field and the run returns three
\* strings; a run that raises does so in the lookup or in the language-model
\* stage, never in the notification.
C6_ReportedFailuresAreStrings ==
    /\ (resp.k = "response" /\ resp.status_code # 200)
         => pc = "Done" /\ ret[1][1] = " SerpAPI error "
    /\ (GotObject /\ NoNullCollection /\ Itins = <<>>)
         => pc = "Done" /\ ret[1] = <<"No flights found. Try different dates or airports.">>
    /\ (/\ GotObject /\ NoNullCollection /\ Itins # <<>>
        /\ \A i \in 1..Len(Itins) : Itins[i].flights.k # "absent" /\ Itins[i].flights.v = <<>>)
         => pc = "Done" /\ ret[1] = <<"Could not parse flight data.">>
    /\ (mistral_resp.k = "response" /\ mistral_resp.status_code # 200)
         => pc # "Raised" /\ recommendation[1] = " Mistral error "
    /\ smtp \notin {"none", "ok"}
         => pc = "Done" /\ ret[3][1] = "Email failed: "
    /\ pc = "Done" => Len(ret) = 3
    /\ pc = "Raised"
         => /\ smtp = "none"
            /\ exc \in {"RequestException", "JSONDecodeError", "AttributeError", "TypeError",
                        "KeyError"}

C6_Witness ==
    /\ pc = "Done"
    /\ mistral_resp.status_code = 429
    /\ smtp = "sendmail"
    /\ ret[2][1] = " Mistral error "
    /\ ret[3][1] = "Email failed: "

\* The edges of the claimed state machine, a click starting a run in Searching.
ClaimedEdges ==
    {<<"Idle", "Searching">>, <<"Done", "Searching">>,
     <<"Searching", "Recommending">>, <<"Recommending", "Notifying">>,
     <<"Notifying", "Done">>, <<"Searching", "Done">>}

\* The edges an exception adds.
ExceptionEdges ==
    {<<"Searching", "Raised">>, <<"Recommending", "Raised">>, <<"Raised", "Searching">>}

\* An early exit from Searching to Done is the report of an error status or of
\* an empty result, with nothing recommended and nothing sent.
EarlyExit ==
    (pc = "Searching" /\ pc' = "Done")
      => /\ ret'[1][1] \in {" SerpAPI error ",
                            "No flights found. Try different dates or airports.",
                            "Could not parse flight data."}
         /\ ret'[2] = EmptyStr /\ ret'[3] = EmptyStr

\* C7: the run is a state machine Searching -> Recommending -> Notifying -> Done
\* whose only other transitions are the early exits from Searching to Done on a
\* transport error or an empty result.
C7_OnlyClaimedEdges ==
    [][(pc' # pc => <<pc, pc'>> \in ClaimedEdges) /\ EarlyExit]_vars

\* C7 as amended: besides those edges a run can end with an exception, from
\* Searching or from Recommending; a run in Notifying always reaches Done, and
\* Done is reached from Notifying or by an early exit from Searching only.
C7_EdgesWithExceptionExits ==
    [][(pc' # pc => <<pc, pc'>> \in ClaimedEdges \cup ExceptionEdges) /\ EarlyExit]_vars

C7_Witness ==
    /\ pc = "Raised"
    /\ calls = <<"get", "post">>
    /\ mistral_resp.k = "none"
    /\ exc = "RequestException"

InOrder ==
    \E n \in 0..3 : calls = SubSeq(<<"get", "post", "send_email">>, 1, n)

\* C9: no request is retried: in a run the flight request, the language-model
\* request and the SMTP send are each issued at most once, in that order, and
\* the SMTP send is issued if and only if the language-model request was.
C9_OnceInOrderEmailIffModel ==
    /\ CallCount("get") <= 1 /\ CallCount("post") <= 1 /\ CallCount("send_email") <= 1
    /\ InOrder
    /\ Finished => (CallCount("send_email") = 1 <=> CallCount("post") = 1)

\* C9 as amended: each is issued at most once, in that order, and the SMTP send
\* is issued if and only if the language-model request was issued and gave a
\* response that is an error status or holds choices[0].message.content.
C9_OnceInOrderEmailIffModelAnswered ==
    /\ CallCount("get") <= 1 /\ CallCount("post") <= 1 /\ CallCount("send_email") <= 1
    /\ InOrder
    /\ Finished =>
         (CallCount("send_email") = 1
            <=> /\ CallCount("post") = 1
                /\ mistral_resp.k = "response"
                /\ mistral_resp.status_code = 200 => mistral_resp.body.has)

C9_Witness ==
    /\ pc = "Raised"
    /\ calls = <<"get", "post">>
    /\ mistral_resp.status_code = 200
    /\ ~mistral_resp.body.has
    /\ exc = "KeyError"

\* C8: when the itineraries are not empty but have no legs at all (every
\* "flights" is empty, null or missing), the run returns the "could not parse"
\* message, which is neither the no-results nor the transport-error message, with
\* an empty recommendation and email status, and calls neither the language
\* model nor send_email.
C8_ZeroRowsIsUnparseable ==
    (/\ GotObject /\ NoNullCollection /\ Itins # <<>>
     /\ \A i \in 1..Len(Itins) : Itins[i].flights.v = <<>>)
      => /\ pc = "Done"
         /\ ret = <<CouldNotParse, EmptyStr, EmptyStr>>
         /\ CouldNotParse # NoFlightsFound
         /\ CouldNotParse[1] # " SerpAPI error "
         /\ CallCount("post") = 0
         /\ CallCount("send_email") = 0

\* The same for the itineraries whose "flights" is empty or null.
UnparseableWhenFlightsEmptyOrNull ==
    (/\ GotObject /\ NoNullCollection /\ Itins # <<>>
     /\ \A i \in 1..Len(Itins) : Itins[i].flights.k # "absent" /\ Itins[i].flights.v = <<>>)
      => /\ pc = "Done"
         /\ ret = <<CouldNotParse, EmptyStr, EmptyStr>>
         /\ calls = <<"get">>

\* C10: in a run that returns, the email status is empty exactly when send_email
\* was not called; when it was called the status is the confirmation naming the
\* recipient or the failure string; and an empty email status comes with an
\* empty recommendation.
C10_EmailStatusEmptyIffNotSent ==
    pc = "Done"
      => /\ ret[3] = EmptyStr <=> CallCount("send_email") = 0
         /\ CallCount("send_email") > 0
              => \/ ret[3] = <<"Summary sent to ", request.user_email>>
                 \/ Len(ret[3]) = 2 /\ ret[3][1] = "Email failed: " /\ ret[3][2] # ""
         /\ ret[3] = EmptyStr => ret[2] = EmptyStr

C10_Witness ==
    /\ pc = "Done"
    /\ smtp = "ok"
    /\ request.user_email = "bob@example.org"
    /\ ret[3] = <<"Summary sent to ", "bob@example.org">>

====
